---- MODULE Spec2Model ----
(***************************************************************************)
(* Model of the DRM atomic helper (drivers/gpu/drm/drm_atomic_helper.c):   *)
(* transactions (struct drm_atomic_helper_state) that stage shadow state   *)
(* blocks for planes and crtcs, check them, commit them by swapping the    *)
(* shadow block with the object's live state block, and release what is    *)
(* left at the end.                                                        *)
(*                                                                         *)
(* State blocks are heap objects.  A block is named <<kind, t, i>>: the    *)
(* block that transaction t allocates for object i of that kind (each      *)
(* transaction allocates at most one block per object, get_*_state being   *)
(* get-or-create), and t = 0 for the block the object owns at start.       *)
(* Framebuffer reference counts are kept relative to the references held   *)
(* on behalf of display state: a count starts at the number of live state  *)
(* blocks that bind the framebuffer.                                       *)
(***************************************************************************)
EXTENDS Integers, Sequences, FiniteSets

\* ---- bounds of the model ------------------------------------------------
NumPlane == 2
NumCrtc  == 2
NumFb    == 2
NumTxn   == 2
MaxSet   == 2
MaxConcSet == 1

\* ---- program constants --------------------------------------------------
EINVAL == 22
EBUSY  == 16
NoFb   == 0
NoTxn  == 0
NoCrtc == -1
NoEvent == "no_event"
TheEvent == "event"

Planes == 0 .. (NumPlane - 1)
Crtcs  == 0 .. (NumCrtc - 1)
Fbs    == 1 .. NumFb
Txns   == 1 .. NumTxn
Flags  == {0, 1}

\* dev->mode_config.mutex and the crtc->mutex of every crtc
Locks == {<<"mode_config", 0>>} \cup {<<"crtc", c>> : c \in Crtcs}

NullBlk == <<"null", 0, 0>>
PBlk == {<<"plane", t, p>> : t \in 0 .. NumTxn, p \in Planes}
CBlk == {<<"crtc", t, c>> : t \in 0 .. NumTxn, c \in Crtcs}
Blk  == PBlk \cup CBlk

\* results an external hook or primitive may return
HookRet == {0, -EINVAL, -EBUSY}

VARIABLES
    plane_state,  \* plane->state: the live state block of each plane
    crtc_state,   \* crtc->state: the live state block of each crtc
    ps,           \* contents of the plane state blocks (struct drm_plane_state)
    cs,           \* contents of the crtc state blocks (struct drm_crtc_state)
    crtc_fb,      \* crtc->fb, the framebuffer the hardware scans out
    page_flip,    \* crtc->funcs->page_flip != NULL
    refcnt,       \* framebuffer reference counts
    kalloc,       \* blocks handed out by kzalloc (and the initial blocks)
    kfreed,       \* how many times each block was passed to kfree
    pc,           \* where each transaction's caller is
    flags,        \* a->flags
    planes,       \* a->planes[i] != NULL
    pstates,      \* a->pstates[i]
    crtcs,        \* a->crtcs[i] != NULL
    cstates,      \* a->cstates[i]
    idx,          \* loop position of drm_atomic_helper_commit
    ret,          \* value returned by the last check/commit call
    nset,         \* number of staging calls made in the transaction
    fbset,        \* objects whose FB_ID property the transaction has set
    checkLog,     \* check hook invocations of the transaction, in order
    commitLog,    \* per-object commits of the transaction, in order
    oops,         \* a NULL pointer was dereferenced
    sched,        \* the workload: a single caller, or concurrent callers
    mutex,        \* owner of dev->mode_config.mutex and of each crtc->mutex
    step,         \* where a caller is inside one per-object commit
    endptr,       \* the live-state pointer drm_atomic_helper_end has loaded
    todrop,       \* fb and old_fb of a per-object commit, not dropped yet
    locals        \* ret, fb and old_fb of a per-object commit whose
                  \* primitive has returned

vars == <<plane_state, crtc_state, ps, cs, crtc_fb, page_flip, refcnt,
          kalloc, kfreed, pc, flags, planes, pstates, crtcs, cstates,
          idx, ret, nset, fbset, checkLog, commitLog, oops, sched,
          mutex, step, endptr, todrop, locals>>

\* the state of the step-by-step commit and end
lockvars == <<mutex, step, endptr, todrop, locals>>

\* The machine state as one record, so that the C functions can be written
\* as operators from a state to the state they leave behind.
Cur == [plane_state |-> plane_state, crtc_state |-> crtc_state,
        ps |-> ps, cs |-> cs, crtc_fb |-> crtc_fb, refcnt |-> refcnt,
        kalloc |-> kalloc, kfreed |-> kfreed,
        planes |-> planes, pstates |-> pstates,
        crtcs |-> crtcs, cstates |-> cstates, oops |-> oops]

Install(m) ==
    /\ plane_state' = m.plane_state
    /\ crtc_state' = m.crtc_state
    /\ ps' = m.ps
    /\ cs' = m.cs
    /\ crtc_fb' = m.crtc_fb
    /\ refcnt' = m.refcnt
    /\ kalloc' = m.kalloc
    /\ kfreed' = m.kfreed
    /\ planes' = m.planes
    /\ pstates' = m.pstates
    /\ crtcs' = m.crtcs
    /\ cstates' = m.cstates
    /\ oops' = m.oops

\* the locals of a per-object commit that is not running
NoLocals == [sub |-> "none", ret |-> 0, fb |-> NoFb, old_fb |-> NoFb]

ZeroPlaneState == [fb |-> NoFb, crtc |-> NoCrtc, state |-> NoTxn]
ZeroCrtcState  == [fb |-> NoFb, set_config |-> FALSE, event |-> NoEvent,
                   state |-> NoTxn]

\* ---- reference counting -------------------------------------------------
drm_framebuffer_reference(m, fb) ==
    IF fb = NoFb THEN m
    ELSE [m EXCEPT !.refcnt[fb] = @ + 1]

drm_framebuffer_unreference(m, fb) ==
    IF fb = NoFb THEN m
    ELSE [m EXCEPT !.refcnt[fb] = @ - 1]

kfree(m, b) == [m EXCEPT !.kfreed[b] = @ + 1]


\* ---- staging (get-or-create shadow state) -------------------------------
\* *pstate = *plane->state; pstate->state = state;
drm_atomic_helper_init_plane_state(m, p, pstate, t) ==
    [m EXCEPT !.ps[pstate] = [m.ps[m.plane_state[p]] EXCEPT !.state = t]]

\* get_plane_state that takes the snapshot again on every call
get_plane_state_snapshots_again(m, p, t) ==
    LET pstate == <<"plane", t, p>>
        m1 == [m EXCEPT !.kalloc = @ \cup {pstate}]
        m2 == drm_atomic_helper_init_plane_state(m1, p, pstate, t)
    IN  [m2 EXCEPT !.planes[t][p] = TRUE, !.pstates[t][p] = pstate]

drm_atomic_helper_get_plane_state(m, p, t) ==
    IF m.pstates[t][p] # NullBlk THEN m
    ELSE LET pstate == <<"plane", t, p>>
             m1 == [m EXCEPT !.kalloc = @ \cup {pstate}]
             m2 == drm_atomic_helper_init_plane_state(m1, p, pstate, t)
         IN  [m2 EXCEPT !.planes[t][p] = TRUE, !.pstates[t][p] = pstate]

\* *cstate = *crtc->state; cstate->state = state;
drm_atomic_helper_init_crtc_state(m, c, cstate, t) ==
    [m EXCEPT !.cs[cstate] = [m.cs[m.crtc_state[c]] EXCEPT !.state = t]]

drm_atomic_helper_get_crtc_state(m, c, t) ==
    IF m.cstates[t][c] # NullBlk THEN m
    ELSE LET cstate == <<"crtc", t, c>>
             m1 == [m EXCEPT !.kalloc = @ \cup {cstate}]
             m2 == drm_atomic_helper_init_crtc_state(m1, c, cstate, t)
         IN  [m2 EXCEPT !.crtcs[t][c] = TRUE, !.cstates[t][c] = cstate]

\* The property interpreters the setters hand the shadow to.  Looking up the
\* framebuffer named by a new FB_ID takes a reference for the caller; the
\* commit is what consumes or drops it.
drm_plane_set_property(m, pstate, prop, val) ==
    IF prop = "fb"
    THEN drm_framebuffer_reference([m EXCEPT !.ps[pstate].fb = val], val)
    ELSE [m EXCEPT !.ps[pstate].crtc = val]

drm_crtc_set_property(m, cstate, prop, val) ==
    IF prop = "fb"
    THEN drm_framebuffer_reference([m EXCEPT !.cs[cstate].fb = val], val)
    ELSE [m EXCEPT !.cs[cstate].set_config = TRUE]

drm_atomic_helper_plane_set_property(m, p, t, prop, val) ==
    LET m1 == drm_atomic_helper_get_plane_state(m, p, t)
    IN  drm_plane_set_property(m1, m1.pstates[t][p], prop, val)

drm_atomic_helper_crtc_set_property(m, c, t, prop, val) ==
    LET m1 == drm_atomic_helper_get_crtc_state(m, c, t)
    IN  drm_crtc_set_property(m1, m1.cstates[t][c], prop, val)

\* set_event without the switch on the object's type: the event is recorded
\* on the crtc that has the object's identity
set_event_any_object(m, t, obj, event) ==
    LET c  == IF obj[2] \in Crtcs THEN obj[2] ELSE 0
        m1 == drm_atomic_helper_get_crtc_state(m, c, t)
    IN  [m |-> [m1 EXCEPT !.cs[m1.cstates[t][c]].event = event],
         ret |-> 0]

\* obj is <<"plane", i>> or <<"crtc", i>>; the result carries the return value
drm_atomic_helper_set_event(m, t, obj, event) ==
    IF obj[1] = "crtc"
    THEN LET m1 == drm_atomic_helper_get_crtc_state(m, obj[2], t)
         IN  [m |-> [m1 EXCEPT !.cs[m1.cstates[t][obj[2]]].event = event],
              ret |-> 0]
    ELSE [m |-> m, ret |-> -EINVAL]

\* ---- check --------------------------------------------------------------
\* hook[i] is what the plane check hook answers for plane i
RECURSIVE CheckFrom(_, _, _, _)
CheckFrom(m, t, hook, i) ==
    IF i >= NumPlane THEN [ret |-> 0, log |-> <<>>]
    ELSE IF m.planes[t][i]
         THEN IF hook[i] # 0
              THEN [ret |-> hook[i], log |-> <<[id |-> i, ret |-> hook[i]]>>]
              ELSE LET rest == CheckFrom(m, t, hook, i + 1)
                   IN  [ret |-> rest.ret,
                        log |-> <<[id |-> i, ret |-> 0]>> \o rest.log]
         ELSE CheckFrom(m, t, hook, i + 1)

\* the loop without its break: every touched plane is checked and the last
\* result is returned
RECURSIVE CheckAllFrom(_, _, _, _)
CheckAllFrom(m, t, hook, i) ==
    IF i >= NumPlane THEN [ret |-> 0, log |-> <<>>]
    ELSE IF m.planes[t][i]
         THEN LET rest == CheckAllFrom(m, t, hook, i + 1)
              IN  [ret |-> IF rest.log = <<>> THEN hook[i] ELSE rest.ret,
                   log |-> <<[id |-> i, ret |-> hook[i]]>> \o rest.log]
         ELSE CheckAllFrom(m, t, hook, i + 1)

check_without_break(m, t, hook) == CheckAllFrom(m, t, hook, 0)

drm_atomic_helper_check(m, t, hook) == CheckFrom(m, t, hook, 0)

\* ---- commit -------------------------------------------------------------
\* an assignment in place of the swap: the slot keeps the shadow
swap_plane_state_assign(m, p, a) ==
    IF a = NoTxn THEN [m EXCEPT !.oops = TRUE]
    ELSE [m EXCEPT !.plane_state[p] = m.pstates[a][p]]

\* swap(plane->state, a->pstates[plane->id])
swap_plane_state(m, p, a) ==
    IF a = NoTxn THEN [m EXCEPT !.oops = TRUE]
    ELSE [m EXCEPT !.plane_state[p] = m.pstates[a][p],
                   !.pstates[a][p] = m.plane_state[p]]

\* swap(crtc->state, a->cstates[crtc->id])
swap_crtc_state(m, c, a) ==
    IF a = NoTxn THEN [m EXCEPT !.oops = TRUE]
    ELSE [m EXCEPT !.crtc_state[c] = m.cstates[a][c],
                   !.cstates[a][c] = m.crtc_state[c]]

\* The mode-set primitive: on success the crtc scans out set->fb.
drm_mode_set_config_internal(m, c, fb, r) ==
    IF r = 0 THEN [m EXCEPT !.crtc_fb[c] = fb] ELSE m

\* The flip primitive of the driver: on success the crtc scans out fb.
crtc_page_flip(m, c, fb, r) ==
    IF r = 0 THEN [m EXCEPT !.crtc_fb[c] = fb] ELSE m

\* the locals fb and old_fb that are not NULL when the unlock is reached, in
\* the order they are dropped in
Pending(fb, old_fb) ==
    (IF fb # NoFb THEN <<fb>> ELSE <<>>)
    \o (IF old_fb # NoFb THEN <<old_fb>> ELSE <<>>)

\* drm_framebuffer_unreference of each of ds, in order
RECURSIVE Unreference(_, _)
Unreference(m, ds) ==
    IF ds = <<>> THEN m
    ELSE Unreference(drm_framebuffer_unreference(m, Head(ds)), Tail(ds))

\* the paths of the per-object commits that call a primitive
CallsPrimitive(sub) == sub \in {"update", "disable", "set_config", "flip"}

\* A per-object commit is written in two halves.  The first runs from the
\* lock to the return of the primitive the path calls (or to the label out
\* on the paths that call none); r is what the primitive returns.  Its result
\* is the state m at that point, the path taken (sub), the arguments the
\* primitive was called with (args) and the locals ret, fb and old_fb as they
\* are at that point.  The second half runs from there to the unlock, with
\* the locals l of the first; its result is the state m where the unlock is
\* reached and the references dropped after the unlock (drops).

\* drm_atomic_helper_commit_plane_state up to the return of update_plane or
\* disable_plane
commit_plane_state_call(m, p, pstate, r) ==
    IF pstate = NullBlk
    THEN [m |-> [m EXCEPT !.oops = TRUE], ret |-> 0, sub |-> "oops",
          args |-> <<>>, fb |-> NoFb, old_fb |-> NoFb]
    ELSE
    LET st == m.ps[pstate]
    IN  IF st.crtc # NoCrtc /\ st.fb # NoFb
        THEN [m |-> m, ret |-> r, sub |-> "update",
              args |-> <<st.crtc, st.fb>>, fb |-> st.fb, old_fb |-> NoFb]
        ELSE [m |-> m, ret |-> 0, sub |-> "disable", args |-> <<>>,
              fb |-> st.fb, old_fb |-> m.ps[m.plane_state[p]].fb]

\* drm_atomic_helper_commit_plane_state from the return of the primitive to
\* drm_modeset_unlock_all
commit_plane_state_swap(m, p, pstate, l) ==
    IF l.sub = "update"
    THEN IF l.ret = 0
         THEN [m |-> swap_plane_state(m, p, m.ps[pstate].state),
               drops |-> Pending(NoFb, m.ps[m.plane_state[p]].fb)]
         ELSE [m |-> m, drops |-> Pending(l.fb, l.old_fb)]
    ELSE IF l.sub = "disable"
    THEN [m |-> swap_plane_state(m, p, m.ps[pstate].state),
          drops |-> Pending(l.fb, l.old_fb)]
    ELSE [m |-> m, drops |-> <<>>]

\* the whole call: the state at the return, the returned value, the path and
\* the primitive's arguments
drm_atomic_helper_commit_plane_state(m, p, pstate, r) ==
    LET l == commit_plane_state_call(m, p, pstate, r)
        s == commit_plane_state_swap(l.m, p, pstate, l)
    IN  [m |-> Unreference(s.m, s.drops), ret |-> l.ret, sub |-> l.sub,
         args |-> l.args]

\* set_config that swaps whatever the primitive returned
set_config_swaps_anyway(m, c, cstate, r) ==
    LET st == m.cs[cstate]
        fb == st.fb
        m1 == drm_mode_set_config_internal(m, c, fb, r)
        m2 == swap_crtc_state(m1, c, st.state)
        m3 == drm_framebuffer_unreference(m2, fb)
    IN  [m |-> m3, ret |-> r, sub |-> "set_config", args |-> <<fb>>]

\* set_config up to the return of drm_mode_set_config_internal
set_config_call(m, c, cstate, r) ==
    LET fb == m.cs[cstate].fb
    IN  [m |-> drm_mode_set_config_internal(m, c, fb, r), ret |-> r,
         sub |-> "set_config", args |-> <<fb>>, fb |-> fb, old_fb |-> NoFb]

\* set_config from the return of the primitive to drm_modeset_unlock_all:
\* the reference is dropped before the unlock
set_config_swap(m, c, cstate, l) ==
    LET m2 == IF l.ret = 0 THEN swap_crtc_state(m, c, m.cs[cstate].state)
              ELSE m
    IN  [m |-> drm_framebuffer_unreference(m2, l.fb), drops |-> <<>>]

set_config(m, c, cstate, r) ==
    LET l == set_config_call(m, c, cstate, r)
        s == set_config_swap(l.m, c, cstate, l)
    IN  [m |-> Unreference(s.m, s.drops), ret |-> l.ret, sub |-> l.sub,
         args |-> l.args]

\* the crtc commit testing for the flip primitive before it tests whether the
\* crtc scans anything out
commit_crtc_state_flip_tests_reordered(m, c, cstate, r) ==
    LET st   == m.cs[cstate]
        live == m.cs[m.crtc_state[c]]
    IN
    IF st.set_config THEN set_config(m, c, cstate, r)
    ELSE IF st.fb # NoFb /\ live.fb # st.fb
    THEN IF ~page_flip
         THEN [m |-> m, ret |-> -EINVAL, sub |-> "flip_nofunc",
               args |-> <<>>]
         ELSE IF m.crtc_fb[c] = NoFb
         THEN [m |-> m, ret |-> -EBUSY, sub |-> "flip_unbound",
               args |-> <<>>]
         ELSE LET old_fb == IF r # 0 THEN NoFb ELSE m.crtc_fb[c]
                  fb     == IF r # 0 THEN st.fb ELSE NoFb
                  m1     == crtc_page_flip(m, c, st.fb, r)
                  m2     == IF r = 0 THEN swap_crtc_state(m1, c, st.state)
                            ELSE m1
                  m3     == drm_framebuffer_unreference(m2, fb)
                  m4     == drm_framebuffer_unreference(m3, old_fb)
              IN  [m |-> m4, ret |-> r, sub |-> "flip",
                   args |-> <<st.fb, st.event, flags[st.state]>>]
    ELSE IF live.fb # st.fb
    THEN LET old_fb == live.fb
             m1     == drm_mode_set_config_internal(m, c, NoFb, r)
             m2     == IF r = 0 THEN swap_crtc_state(m1, c, st.state) ELSE m1
             m3     == drm_framebuffer_unreference(m2, old_fb)
         IN  [m |-> m3, ret |-> r, sub |-> "disable", args |-> <<NoFb>>]
    ELSE [m |-> m, ret |-> -EINVAL, sub |-> "noop", args |-> <<>>]

\* drm_atomic_helper_commit_crtc_state up to the return of page_flip or of
\* drm_mode_set_config_internal, or to the label out
commit_crtc_state_call(m, c, cstate, r) ==
    IF cstate = NullBlk
    THEN [m |-> [m EXCEPT !.oops = TRUE], ret |-> 0, sub |-> "oops",
          args |-> <<>>, fb |-> NoFb, old_fb |-> NoFb]
    ELSE
    LET st   == m.cs[cstate]
        live == m.cs[m.crtc_state[c]]
    IN
    IF st.set_config THEN set_config_call(m, c, cstate, r)
    ELSE IF st.fb # NoFb /\ live.fb # st.fb
    THEN \* pageflip
         IF m.crtc_fb[c] = NoFb
         THEN [m |-> m, ret |-> -EBUSY, sub |-> "flip_unbound",
               args |-> <<>>, fb |-> NoFb, old_fb |-> NoFb]
         ELSE IF ~page_flip
         THEN [m |-> m, ret |-> -EINVAL, sub |-> "flip_nofunc",
               args |-> <<>>, fb |-> NoFb, old_fb |-> NoFb]
         ELSE [m |-> crtc_page_flip(m, c, st.fb, r), ret |-> r,
               sub |-> "flip",
               args |-> <<st.fb, st.event, flags[st.state]>>,
               fb |-> st.fb, old_fb |-> m.crtc_fb[c]]
    ELSE IF live.fb # st.fb
    THEN \* disable
         [m |-> drm_mode_set_config_internal(m, c, NoFb, r), ret |-> r,
          sub |-> "disable", args |-> <<NoFb>>, fb |-> NoFb,
          old_fb |-> live.fb]
    ELSE [m |-> m, ret |-> -EINVAL, sub |-> "noop", args |-> <<>>,
          fb |-> NoFb, old_fb |-> NoFb]

\* drm_atomic_helper_commit_crtc_state from the return of the primitive to
\* the unlock
commit_crtc_state_swap(m, c, cstate, l) ==
    IF l.sub = "set_config" THEN set_config_swap(m, c, cstate, l)
    ELSE IF l.sub = "flip"
    THEN IF l.ret # 0
         THEN [m |-> m, drops |-> Pending(l.fb, NoFb)]
         ELSE [m |-> swap_crtc_state(m, c, m.cs[cstate].state),
               drops |-> Pending(NoFb, l.old_fb)]
    ELSE IF l.sub = "disable"
    THEN [m |-> IF l.ret = 0
                THEN swap_crtc_state(m, c, m.cs[cstate].state)
                ELSE m,
          drops |-> Pending(l.fb, l.old_fb)]
    ELSE [m |-> m, drops |-> <<>>]

\* the whole call: the state at the return, the returned value, the path and
\* the primitive's arguments
drm_atomic_helper_commit_crtc_state(m, c, cstate, r) ==
    IF cstate # NullBlk /\ m.cs[cstate].set_config
    THEN set_config(m, c, cstate, r)
    ELSE LET l == commit_crtc_state_call(m, c, cstate, r)
             s == commit_crtc_state_swap(l.m, c, cstate, l)
         IN  [m |-> Unreference(s.m, s.drops), ret |-> l.ret,
              sub |-> l.sub, args |-> l.args]

\* ---- end ----------------------------------------------------------------
RECURSIVE EndPlanes(_, _, _)
EndPlanes(m, t, i) ==
    IF i >= NumPlane THEN m
    ELSE IF m.pstates[t][i] # NullBlk
         THEN LET m1 == [m EXCEPT !.ps[m.plane_state[i]].state = NoTxn]
              IN  EndPlanes(kfree(m1, m.pstates[t][i]), t, i + 1)
         ELSE EndPlanes(m, t, i + 1)

RECURSIVE EndCrtcs(_, _, _)
EndCrtcs(m, t, i) ==
    IF i >= NumCrtc THEN m
    ELSE IF m.cstates[t][i] # NullBlk
         THEN LET m1 == [m EXCEPT !.cs[m.crtc_state[i]].state = NoTxn]
              IN  EndCrtcs(kfree(m1, m.cstates[t][i]), t, i + 1)
         ELSE EndCrtcs(m, t, i + 1)

\* kfree(state) releases the transaction with its marker and slot tables
drm_atomic_helper_end(m, t) ==
    LET m1 == EndCrtcs(EndPlanes(m, t, 0), t, 0)
    IN  [m1 EXCEPT !.planes[t] = [p \in Planes |-> FALSE],
                   !.pstates[t] = [p \in Planes |-> NullBlk],
                   !.crtcs[t] = [c \in Crtcs |-> FALSE],
                   !.cstates[t] = [c \in Crtcs |-> NullBlk]]


\* ---- the loops of drm_atomic_helper_commit ------------------------------
TouchedPlanesFrom(t, i) == {j \in Planes : j >= i /\ planes[t][j]}
\* the crtc loop testing the plane markers
TouchedCrtcsByPlaneMarker(t, i) ==
    {j \in Crtcs : j >= i /\ j \in Planes /\ planes[t][j]}
TouchedCrtcsFrom(t, i)  == {j \in Crtcs : j >= i /\ crtcs[t][j]}
Least(S) == CHOOSE x \in S : \A y \in S : x <= y

\* the next object the crtc loop commits, from index i on
CrtcLoop(t, i) ==
    IF TouchedCrtcsFrom(t, i) # {}
    THEN <<"crtcs", Least(TouchedCrtcsFrom(t, i))>>
    ELSE <<"done", 0>>

\* the next object the plane loop commits, from index i on; when the plane
\* loop is over the crtc loop starts
PlaneLoop(t, i) ==
    IF TouchedPlanesFrom(t, i) # {}
    THEN <<"planes", Least(TouchedPlanesFrom(t, i))>>
    ELSE CrtcLoop(t, 0)

\* the crtc loop without its break
AfterCommitCrtcLoopGoesOn(t, pos, rv) ==
    IF pos[1] = "planes"
    THEN IF rv # 0 THEN CrtcLoop(t, 0) ELSE PlaneLoop(t, pos[2] + 1)
    ELSE CrtcLoop(t, pos[2] + 1)

\* where the loops go after the commit at position pos returned rv
AfterCommit(t, pos, rv) ==
    IF pos[1] = "planes"
    THEN IF rv # 0 THEN CrtcLoop(t, 0) ELSE PlaneLoop(t, pos[2] + 1)
    ELSE IF rv # 0 THEN <<"done", 0>> ELSE CrtcLoop(t, pos[2] + 1)

\* ---- initial state ------------------------------------------------------
LiveBindings(f) ==
    Cardinality({p \in Planes : ps[plane_state[p]].fb = f})
    + Cardinality({c \in Crtcs : cs[crtc_state[c]].fb = f})

InitDevice ==
    /\ plane_state = [p \in Planes |-> <<"plane", 0, p>>]
    /\ crtc_state = [c \in Crtcs |-> <<"crtc", 0, c>>]
    /\ ps = [b \in PBlk |->
                IF b[2] = 0 /\ b[3] = 0
                THEN [fb |-> 1, crtc |-> 0, state |-> NoTxn]
                ELSE ZeroPlaneState]
    /\ cs = [b \in CBlk |->
                IF b[2] = 0 /\ b[3] = 0
                THEN [ZeroCrtcState EXCEPT !.fb = 1]
                ELSE ZeroCrtcState]
    /\ crtc_fb = [c \in Crtcs |-> cs[crtc_state[c]].fb]
    /\ page_flip \in BOOLEAN
    /\ refcnt = [f \in Fbs |-> LiveBindings(f)]
    /\ kalloc = {b \in Blk : b[2] = 0}
    /\ kfreed = [b \in Blk |-> 0]
    /\ pc = [t \in Txns |-> "idle"]
    /\ flags = [t \in Txns |-> 0]
    /\ planes = [t \in Txns |-> [p \in Planes |-> FALSE]]
    /\ pstates = [t \in Txns |-> [p \in Planes |-> NullBlk]]
    /\ crtcs = [t \in Txns |-> [c \in Crtcs |-> FALSE]]
    /\ cstates = [t \in Txns |-> [c \in Crtcs |-> NullBlk]]
    /\ idx = [t \in Txns |-> <<"done", 0>>]
    /\ ret = [t \in Txns |-> 0]
    /\ nset = [t \in Txns |-> 0]
    /\ fbset = [t \in Txns |-> {}]
    /\ checkLog = [t \in Txns |-> <<>>]
    /\ commitLog = [t \in Txns |-> <<>>]
    /\ oops = FALSE
    /\ mutex = [l \in Locks |-> NoTxn]
    /\ step = [t \in Txns |-> "none"]
    /\ endptr = [t \in Txns |-> NullBlk]
    /\ todrop = [t \in Txns |-> <<>>]
    /\ locals = [t \in Txns |-> NoLocals]

Init == InitDevice /\ sched = "single"

InitConc == InitDevice /\ sched = "conc"

\* ---- actions ------------------------------------------------------------
\* Two workloads: a single caller that runs one transaction and stages up to
\* MaxSet times in it, or NumTxn concurrent callers that run one transaction
\* each and stage up to MaxConcSet times.
Budget == IF sched = "single" THEN MaxSet ELSE MaxConcSet

Begin(t) ==
    /\ pc[t] = "idle"
    /\ sched = "single" => t = 1
    /\ \E fl \in Flags : flags' = [flags EXCEPT ![t] = fl]
    /\ pc' = [pc EXCEPT ![t] = "open"]
    /\ UNCHANGED <<plane_state, crtc_state, ps, cs, crtc_fb, page_flip,
                   refcnt, kalloc, kfreed, planes, pstates, crtcs, cstates,
                   idx, ret, nset, fbset, checkLog, commitLog, oops, sched,
                   lockvars>>

Staging(t) ==
    /\ pc[t] = "open"
    /\ nset[t] < Budget
    /\ nset' = [nset EXCEPT ![t] = @ + 1]
    /\ UNCHANGED <<page_flip, pc, flags, idx, ret, checkLog, commitLog, sched,
                   lockvars>>

StagePlane(t) ==
    /\ Staging(t)
    /\ \E p \in Planes : Install(drm_atomic_helper_get_plane_state(Cur, p, t))
    /\ UNCHANGED fbset

SetPlaneFb(t) ==
    /\ Staging(t)
    /\ \E p \in Planes, f \in Fbs \cup {NoFb} :
          /\ <<"plane", p>> \notin fbset[t]
          /\ fbset' = [fbset EXCEPT ![t] = @ \cup {<<"plane", p>>}]
          /\ Install(drm_atomic_helper_plane_set_property(Cur, p, t, "fb", f))

SetPlaneCrtc(t) ==
    /\ Staging(t)
    /\ \E p \in Planes, c \in Crtcs \cup {NoCrtc} :
          Install(drm_atomic_helper_plane_set_property(Cur, p, t, "crtc", c))
    /\ UNCHANGED fbset

SetCrtcFb(t) ==
    /\ Staging(t)
    /\ \E c \in Crtcs, f \in Fbs \cup {NoFb} :
          /\ <<"crtc", c>> \notin fbset[t]
          /\ fbset' = [fbset EXCEPT ![t] = @ \cup {<<"crtc", c>>}]
          /\ Install(drm_atomic_helper_crtc_set_property(Cur, c, t, "fb", f))

SetCrtcMode(t) ==
    /\ Staging(t)
    /\ \E c \in Crtcs :
          Install(drm_atomic_helper_crtc_set_property(Cur, c, t, "mode", 0))
    /\ UNCHANGED fbset

SetEvent(t) ==
    /\ Staging(t)
    /\ \E obj \in ({"plane"} \X Planes) \cup ({"crtc"} \X Crtcs) :
          Install(drm_atomic_helper_set_event(Cur, t, obj, TheEvent).m)
    /\ UNCHANGED fbset

Check(t) ==
    /\ pc[t] = "open"
    /\ \E hook \in {h \in [Planes -> HookRet] :
                          \A p \in Planes : ~planes[t][p] => h[p] = 0} :
          LET res == drm_atomic_helper_check(Cur, t, hook)
          IN  /\ ret' = [ret EXCEPT ![t] = res.ret]
              /\ checkLog' = [checkLog EXCEPT ![t] = res.log]
    /\ pc' = [pc EXCEPT ![t] = "checked"]
    /\ nset' = [nset EXCEPT ![t] = 0]
    /\ fbset' = [fbset EXCEPT ![t] = {}]
    /\ UNCHANGED <<plane_state, crtc_state, ps, cs, crtc_fb, page_flip,
                   refcnt, kalloc, kfreed, flags, planes, pstates, crtcs,
                   cstates, idx, commitLog, oops, sched, lockvars>>

\* One iteration of drm_atomic_helper_commit that commits an object (the
\* iterations over untouched objects are folded into it), or its return.
\* This is the commit of a single caller: the locks are free when it asks for
\* them and nobody runs between its lock, its unlock and the reference drops
\* that follow the unlock, so the iteration is one step from the state before
\* the lock to the state at the return.  Concurrent callers commit with
\* CommitLock, CommitCall, CommitSwap, CommitUnlock and CommitUnref below.
Commit(t) ==
    /\ sched = "single"
    /\ \/ pc[t] = "checked" /\ ret[t] = 0
       \/ pc[t] = "commit"
    /\ LET pos == IF pc[t] = "checked" THEN PlaneLoop(t, 0) ELSE idx[t]
       IN  IF pos[1] = "done"
           THEN /\ pc' = [pc EXCEPT ![t] = "applied"]
                /\ UNCHANGED <<plane_state, crtc_state, ps, cs, crtc_fb,
                               refcnt, kalloc, kfreed, planes, pstates,
                               crtcs, cstates, oops, idx, ret, commitLog>>
           ELSE \E r \in HookRet :
                LET i   == pos[2]
                    res == IF pos[1] = "planes"
                           THEN drm_atomic_helper_commit_plane_state(
                                    Cur, i, pstates[t][i], r)
                           ELSE drm_atomic_helper_commit_crtc_state(
                                    Cur, i, cstates[t][i], r)
                    nxt == AfterCommit(t, pos, res.ret)
                IN  /\ Install(res.m)
                    /\ ret' = [ret EXCEPT ![t] = res.ret]
                    /\ idx' = [idx EXCEPT ![t] = nxt]
                    /\ pc' = [pc EXCEPT ![t] =
                                 IF nxt[1] = "done" THEN "applied"
                                 ELSE "commit"]
                    /\ commitLog' = [commitLog EXCEPT ![t] =
                          Append(@, [kind |-> pos[1], id |-> i,
                                     sub |-> res.sub, args |-> res.args,
                                     ret |-> res.ret])]
    /\ UNCHANGED <<page_flip, flags, nset, fbset, checkLog, sched, lockvars>>

\* drm_atomic_helper_end of a single caller; concurrent callers end with
\* EndRead, EndWrite and EndFree below
End(t) ==
    /\ sched = "single"
    /\ pc[t] \in {"open", "checked", "applied"}
    /\ Install(drm_atomic_helper_end(Cur, t))
    /\ pc' = [pc EXCEPT ![t] = "ended"]
    /\ flags' = [flags EXCEPT ![t] = 0]
    /\ idx' = [idx EXCEPT ![t] = <<"done", 0>>]
    /\ ret' = [ret EXCEPT ![t] = 0]
    /\ nset' = [nset EXCEPT ![t] = 0]
    /\ fbset' = [fbset EXCEPT ![t] = {}]
    /\ checkLog' = [checkLog EXCEPT ![t] = <<>>]
    /\ commitLog' = [commitLog EXCEPT ![t] = <<>>]
    /\ UNCHANGED <<page_flip, sched, lockvars>>

Next ==
    \E t \in Txns :
        \/ Begin(t)
        \/ StagePlane(t)
        \/ SetPlaneFb(t)
        \/ SetPlaneCrtc(t)
        \/ SetCrtcFb(t)
        \/ SetCrtcMode(t)
        \/ SetEvent(t)
        \/ Check(t)
        \/ Commit(t)
        \/ End(t)

\* ---- allocation failure --------------------------------------------------
\* drm_atomic_helper_begin when kzalloc returns NULL: the result is not
\* tested and state->flags = flags stores through it, which faults.
BeginNoMem(t) ==
    /\ pc[t] = "idle"
    /\ sched = "single" => t = 1
    /\ oops' = TRUE
    /\ pc' = [pc EXCEPT ![t] = "crashed"]
    /\ UNCHANGED <<plane_state, crtc_state, ps, cs, crtc_fb, page_flip,
                   refcnt, kalloc, kfreed, flags, planes, pstates, crtcs,
                   cstates, idx, ret, nset, fbset, checkLog, commitLog, sched,
                   lockvars>>

\* get_plane_state / get_crtc_state of an object not staged yet when kzalloc
\* returns NULL: init_*_state copies the live state through the NULL pointer
\* before the marker and the slot are written.
StageNoMem(t) ==
    /\ pc[t] = "open"
    /\ nset[t] < Budget
    /\ \/ \E p \in Planes : pstates[t][p] = NullBlk
       \/ \E c \in Crtcs : cstates[t][c] = NullBlk
    /\ oops' = TRUE
    /\ pc' = [pc EXCEPT ![t] = "crashed"]
    /\ UNCHANGED <<plane_state, crtc_state, ps, cs, crtc_fb, page_flip,
                   refcnt, kalloc, kfreed, flags, planes, pstates, crtcs,
                   cstates, idx, ret, nset, fbset, checkLog, commitLog, sched,
                   lockvars>>

NextOom ==
    \/ Next
    \/ \E t \in Txns : BeginNoMem(t)
    \/ \E t \in Txns : StageNoMem(t)

\* ---- commit and end, step by step ---------------------------------------
\* The mutexes drm_modeset_lock_all takes: dev->mode_config.mutex and the
\* mutex of every crtc.
drm_modeset_lock_all == Locks

\* mx with the mutexes of L owned by t
Acquire(mx, L, t) == [l \in Locks |-> IF l \in L THEN t ELSE mx[l]]

\* mx with the mutexes of L free
Release(mx, L) == [l \in Locks |-> IF l \in L THEN NoTxn ELSE mx[l]]

\* the crtc paths other than set_config taking no lock
LocksTakenNoCrtcMutex(t, pos) ==
    IF pos[1] = "planes" THEN drm_modeset_lock_all
    ELSE IF cs[cstates[t][pos[2]]].set_config THEN drm_modeset_lock_all
    ELSE {}

\* The mutexes the per-object commit at position pos takes before it reads
\* the object's live state: drm_modeset_lock_all in the plane commit and in
\* set_config, crtc->mutex in the other paths of the crtc commit.
LocksTaken(t, pos) ==
    IF pos[1] = "planes" THEN drm_modeset_lock_all
    ELSE IF cs[cstates[t][pos[2]]].set_config THEN drm_modeset_lock_all
    ELSE {<<"crtc", pos[2]>>}

\* the crtc commit returning from its early exits without the unlock
LocksReleasedNotOnEarlyExit(e) ==
    IF e.kind = "planes" \/ e.sub = "set_config" THEN drm_modeset_lock_all
    ELSE IF e.sub \in {"flip_unbound", "flip_nofunc"} THEN {}
    ELSE {<<"crtc", e.id>>}

\* The mutexes the per-object commit recorded as e gives up before it
\* returns: drm_modeset_unlock_all in the plane commit and in set_config,
\* mutex_unlock(&crtc->mutex) at the label out of the crtc commit.
LocksReleased(e) ==
    IF e.kind = "planes" \/ e.sub = "set_config" THEN drm_modeset_lock_all
    ELSE {<<"crtc", e.id>>}

\* drm_atomic_helper_commit reaches its next touched object and the
\* per-object commit takes its lock (it blocks while another caller holds
\* it); with nothing left to commit the call returns.
CommitLock(t) ==
    /\ \/ pc[t] = "checked" /\ ret[t] = 0
       \/ pc[t] = "commit"
    /\ step[t] = "none"
    /\ LET pos == IF pc[t] = "checked" THEN PlaneLoop(t, 0) ELSE idx[t]
       IN  IF pos[1] = "done"
           THEN /\ pc' = [pc EXCEPT ![t] = "applied"]
                /\ UNCHANGED <<mutex, step, idx>>
           ELSE /\ \A l \in LocksTaken(t, pos) : mutex[l] = NoTxn
                /\ mutex' = Acquire(mutex, LocksTaken(t, pos), t)
                /\ step' = [step EXCEPT ![t] = "locked"]
                /\ idx' = [idx EXCEPT ![t] = pos]
                /\ pc' = [pc EXCEPT ![t] = "commit"]
    /\ UNCHANGED <<plane_state, crtc_state, ps, cs, crtc_fb, page_flip,
                   refcnt, kalloc, kfreed, flags, planes, pstates, crtcs,
                   cstates, ret, nset, fbset, checkLog, commitLog, oops,
                   sched, endptr, todrop, locals>>

\* Under the lock: the live state is read and the primitive of the path is
\* called and returns; what it wrote is in place and the states are not
\* swapped yet.  The callers that take no lock (staging, end) run while the
\* commit is here.  The paths that call no primitive reach the unlock.
CommitCall(t) ==
    /\ pc[t] = "commit"
    /\ step[t] = "locked"
    /\ \E r \in HookRet :
          LET i == idx[t][2]
              l == IF idx[t][1] = "planes"
                   THEN commit_plane_state_call(Cur, i, pstates[t][i], r)
                   ELSE commit_crtc_state_call(Cur, i, cstates[t][i], r)
          IN  /\ Install(l.m)
              /\ ret' = [ret EXCEPT ![t] = l.ret]
              /\ commitLog' = [commitLog EXCEPT ![t] =
                    Append(@, [kind |-> idx[t][1], id |-> i,
                               sub |-> l.sub, args |-> l.args,
                               ret |-> l.ret])]
              /\ IF CallsPrimitive(l.sub)
                 THEN /\ step' = [step EXCEPT ![t] = "called"]
                      /\ locals' = [locals EXCEPT ![t] =
                            [sub |-> l.sub, ret |-> l.ret, fb |-> l.fb,
                             old_fb |-> l.old_fb]]
                 ELSE /\ step' = [step EXCEPT ![t] = "unlock"]
                      /\ UNCHANGED locals
    /\ UNCHANGED <<page_flip, pc, flags, idx, nset, fbset, checkLog, sched,
                   mutex, endptr, todrop>>

\* Still under the lock, after the primitive has returned: the states are
\* swapped as its result says and set_config drops its reference.  The step
\* ends where the unlock is reached, with fb and old_fb still to drop.
CommitSwap(t) ==
    /\ pc[t] = "commit"
    /\ step[t] = "called"
    /\ LET i == idx[t][2]
           s == IF idx[t][1] = "planes"
                THEN commit_plane_state_swap(Cur, i, pstates[t][i], locals[t])
                ELSE commit_crtc_state_swap(Cur, i, cstates[t][i], locals[t])
       IN  /\ Install(s.m)
           /\ todrop' = [todrop EXCEPT ![t] = s.drops]
    /\ locals' = [locals EXCEPT ![t] = NoLocals]
    /\ step' = [step EXCEPT ![t] = "unlock"]
    /\ UNCHANGED <<page_flip, pc, flags, idx, ret, nset, fbset, checkLog,
                   commitLog, sched, mutex, endptr>>

\* the per-object commit returns and the loop of drm_atomic_helper_commit
\* goes on
CommitReturn(t) ==
    LET nxt == AfterCommit(t, idx[t], ret[t])
    IN  /\ step' = [step EXCEPT ![t] = "none"]
        /\ idx' = [idx EXCEPT ![t] = nxt]
        /\ pc' = [pc EXCEPT ![t] =
                     IF nxt[1] = "done" THEN "applied" ELSE "commit"]

\* drm_modeset_unlock_all / mutex_unlock(&crtc->mutex); with nothing to drop
\* the per-object commit returns
CommitUnlock(t) ==
    /\ pc[t] = "commit"
    /\ step[t] = "unlock"
    /\ mutex' = Release(mutex, LocksReleased(commitLog[t][Len(commitLog[t])]))
    /\ IF todrop[t] = <<>>
       THEN CommitReturn(t)
       ELSE /\ step' = [step EXCEPT ![t] = "unref"]
            /\ UNCHANGED <<idx, pc>>
    /\ UNCHANGED <<plane_state, crtc_state, ps, cs, crtc_fb, page_flip,
                   refcnt, kalloc, kfreed, flags, planes, pstates, crtcs,
                   cstates, ret, nset, fbset, checkLog, commitLog, oops,
                   sched, endptr, todrop, locals>>

\* after the unlock: drm_framebuffer_unreference(fb), then (old_fb); after the
\* last of them the per-object commit returns
CommitUnref(t) ==
    /\ pc[t] = "commit"
    /\ step[t] = "unref"
    /\ refcnt' = drm_framebuffer_unreference(Cur, Head(todrop[t])).refcnt
    /\ todrop' = [todrop EXCEPT ![t] = Tail(@)]
    /\ IF Tail(todrop[t]) = <<>>
       THEN CommitReturn(t)
       ELSE UNCHANGED <<step, idx, pc>>
    /\ UNCHANGED <<plane_state, crtc_state, ps, cs, crtc_fb, page_flip,
                   kalloc, kfreed, flags, planes, pstates, crtcs, cstates,
                   ret, nset, fbset, checkLog, commitLog, oops, sched,
                   mutex, endptr, locals>>

\* the loops of drm_atomic_helper_end: the next filled slot from index i on
EndCrtcLoop(t, i) ==
    IF {j \in Crtcs : j >= i /\ cstates[t][j] # NullBlk} # {}
    THEN <<"crtcs", Least({j \in Crtcs : j >= i /\ cstates[t][j] # NullBlk})>>
    ELSE <<"done", 0>>

EndPlaneLoop(t, i) ==
    IF {j \in Planes : j >= i /\ pstates[t][j] # NullBlk} # {}
    THEN <<"planes",
           Least({j \in Planes : j >= i /\ pstates[t][j] # NullBlk})>>
    ELSE EndCrtcLoop(t, 0)

\* the slot drm_atomic_helper_end handles next
EndNext(t) ==
    IF pc[t] # "ending" THEN EndPlaneLoop(t, 0)
    ELSE IF idx[t][1] = "planes" THEN EndPlaneLoop(t, idx[t][2] + 1)
    ELSE EndCrtcLoop(t, idx[t][2] + 1)

\* a->planes[i]->state is loaded (no lock is held)
EndRead(t) ==
    /\ pc[t] \in {"open", "checked", "applied", "ending"}
    /\ endptr[t] = NullBlk
    /\ EndNext(t)[1] # "done"
    /\ idx' = [idx EXCEPT ![t] = EndNext(t)]
    /\ endptr' = [endptr EXCEPT ![t] =
                     IF EndNext(t)[1] = "planes"
                     THEN plane_state[EndNext(t)[2]]
                     ELSE crtc_state[EndNext(t)[2]]]
    /\ pc' = [pc EXCEPT ![t] = "ending"]
    /\ UNCHANGED <<plane_state, crtc_state, ps, cs, crtc_fb, page_flip,
                   refcnt, kalloc, kfreed, flags, planes, pstates, crtcs,
                   cstates, ret, nset, fbset, checkLog, commitLog, oops,
                   sched, mutex, step, todrop, locals>>

\* ->state = NULL is stored through the loaded pointer and the slot's block
\* is released.  A store into a block that was released meanwhile lands in
\* whatever occupies that memory: the released block, or a block of the same
\* type allocated since.
EndWrite(t) ==
    /\ pc[t] = "ending"
    /\ endptr[t] # NullBlk
    /\ \E b \in IF kfreed[endptr[t]] = 0 THEN {endptr[t]}
               ELSE {endptr[t]} \cup
                    {x \in kalloc : x[1] = endptr[t][1] /\ kfreed[x] = 0} :
          IF idx[t][1] = "planes"
          THEN /\ ps' = [ps EXCEPT ![b].state = NoTxn]
               /\ kfreed' = [kfreed EXCEPT ![pstates[t][idx[t][2]]] = @ + 1]
               /\ cs' = cs
          ELSE /\ cs' = [cs EXCEPT ![b].state = NoTxn]
               /\ kfreed' = [kfreed EXCEPT ![cstates[t][idx[t][2]]] = @ + 1]
               /\ ps' = ps
    /\ endptr' = [endptr EXCEPT ![t] = NullBlk]
    /\ UNCHANGED <<plane_state, crtc_state, crtc_fb, page_flip, refcnt,
                   kalloc, pc, flags, planes, pstates, crtcs, cstates, idx,
                   ret, nset, fbset, checkLog, commitLog, oops, sched,
                   mutex, step, todrop, locals>>

\* kfree(state): the transaction is released with its tables
EndFree(t) ==
    /\ pc[t] \in {"open", "checked", "applied", "ending"}
    /\ endptr[t] = NullBlk
    /\ EndNext(t)[1] = "done"
    /\ planes' = [planes EXCEPT ![t] = [p \in Planes |-> FALSE]]
    /\ pstates' = [pstates EXCEPT ![t] = [p \in Planes |-> NullBlk]]
    /\ crtcs' = [crtcs EXCEPT ![t] = [c \in Crtcs |-> FALSE]]
    /\ cstates' = [cstates EXCEPT ![t] = [c \in Crtcs |-> NullBlk]]
    /\ pc' = [pc EXCEPT ![t] = "ended"]
    /\ flags' = [flags EXCEPT ![t] = 0]
    /\ idx' = [idx EXCEPT ![t] = <<"done", 0>>]
    /\ ret' = [ret EXCEPT ![t] = 0]
    /\ nset' = [nset EXCEPT ![t] = 0]
    /\ fbset' = [fbset EXCEPT ![t] = {}]
    /\ checkLog' = [checkLog EXCEPT ![t] = <<>>]
    /\ commitLog' = [commitLog EXCEPT ![t] = <<>>]
    /\ UNCHANGED <<plane_state, crtc_state, ps, cs, crtc_fb, page_flip,
                   refcnt, kalloc, kfreed, oops, sched, mutex, step, endptr,
                   todrop, locals>>

\* The framebuffer of a plane is staged as it is: every path of the plane
\* commit takes the same lock.
NextLock ==
    \E t \in Txns :
        \/ Begin(t)
        \/ StagePlane(t)
        \/ SetPlaneCrtc(t)
        \/ SetCrtcFb(t)
        \/ SetCrtcMode(t)
        \/ SetEvent(t)
        \/ Check(t)
        \/ CommitLock(t)
        \/ CommitCall(t)
        \/ CommitSwap(t)
        \/ CommitUnlock(t)
        \/ CommitUnref(t)
        \/ EndRead(t)
        \/ EndWrite(t)
        \/ EndFree(t)

\* a single caller
Spec == Init /\ [][Next]_vars

\* a single caller, with allocations that may fail
SpecOom == Init /\ [][NextOom]_vars

\* concurrent callers: the steps of their commits and ends interleave
SpecLock == InitConc /\ [][NextLock]_vars


\* ---- vocabulary of the properties ---------------------------------------
\* the step is transaction t's call of check, an iteration of its commit, its
\* call of end
ChecksNow(t)  == pc[t] = "open" /\ pc'[t] = "checked"
CommitsNow(t) == Len(commitLog'[t]) = Len(commitLog[t]) + 1
EndsNow(t)    == pc[t] # "ended" /\ pc'[t] = "ended"
\* the step is the store of drm_atomic_helper_end of transaction t through
\* the live-state pointer it loaded
EndWritesNow(t) == endptr[t] # NullBlk /\ endptr'[t] = NullBlk
\* the step is a store or the return of the end of transaction t, which has
\* run no per-object commit
AbandonsNow(t) == commitLog[t] = <<>> /\ (EndWritesNow(t) \/ EndsNow(t))
\* the per-object commit that the step made
Committed(t)  == commitLog'[t][Len(commitLog'[t])]

\* the return value of the first commit of the log that failed, 0 if none
RECURSIVE FirstError(_)
FirstError(log) ==
    IF log = <<>> THEN 0
    ELSE IF Head(log).ret # 0 THEN Head(log).ret
    ELSE FirstError(Tail(log))

LivePlaneContents == [p \in Planes |-> ps[plane_state[p]]]
LiveCrtcContents  == [c \in Crtcs |-> cs[crtc_state[c]]]

\* ---- C1 -----------------------------------------------------------------
\* C1: when apply() has returned, its return value is the error of the first
\* per-object commit that failed (planes in identity order, then crtcs), and
\* it is 0 only if no commit failed.
C1_ApplyReturnsFirstError ==
    \A t \in Txns :
        pc[t] = "applied" => ret[t] = FirstError(commitLog[t])

\* ---- C2 -----------------------------------------------------------------
\* C2: nothing is committed after a failed commit: in the sequence of
\* per-object commits of one apply(), a commit that failed is the last one
\* (no higher plane and no crtc after a failed plane, no higher crtc after a
\* failed crtc).
C2_NothingCommittedAfterFailure ==
    \A t \in Txns :
        \A i \in 1 .. Len(commitLog[t]) :
            commitLog[t][i].ret # 0 => i = Len(commitLog[t])

\* ---- C3 -----------------------------------------------------------------
\* C3: a per-object commit that returns an error executes no swap: the step
\* leaves every object's live-state pointer and the contents of every live
\* block as they were (so earlier commits of the pass are not rolled back),
\* leaves every shadow slot as it was, and the slot of the failed object
\* still holds the shadow the transaction staged for it.
C3_FailedCommitDoesNotSwap ==
    [][\A t \in Txns :
          (CommitsNow(t) /\ Committed(t).ret # 0) =>
              /\ plane_state' = plane_state
              /\ crtc_state' = crtc_state
              /\ LivePlaneContents' = LivePlaneContents
              /\ LiveCrtcContents' = LiveCrtcContents
              /\ pstates' = pstates
              /\ cstates' = cstates
              /\ IF Committed(t).kind = "planes"
                 THEN pstates'[t][Committed(t).id]
                          = <<"plane", t, Committed(t).id>>
                 ELSE cstates'[t][Committed(t).id]
                          = <<"crtc", t, Committed(t).id>>]_vars

\* a plane was committed and swapped in, then a crtc commit of the same
\* apply() failed, and the plane still has its new state
C3_Witness ==
    \E t \in Txns :
        /\ Len(commitLog[t]) = 2
        /\ commitLog[t][1].kind = "planes" /\ commitLog[t][1].ret = 0
        /\ commitLog[t][2].kind = "crtcs" /\ commitLog[t][2].ret # 0
        /\ plane_state[commitLog[t][1].id] = <<"plane", t, commitLog[t][1].id>>
        /\ cstates[t][commitLog[t][2].id] = <<"crtc", t, commitLog[t][2].id>>

\* ---- C4 -----------------------------------------------------------------
\* C4: when no transaction is open, the reference count of every framebuffer
\* equals the number of live state blocks that bind it.
C4_RefcountIsLiveBindings ==
    (\A t \in Txns : pc[t] \in {"idle", "ended"}) =>
        \A f \in Fbs : refcnt[f] = LiveBindings(f)


\* ---- C5 -----------------------------------------------------------------
\* C5: check changes no live state, no marker, no shadow slot and no
\* reference count; and when a transaction whose check failed is ended
\* without a commit, every object's live state is what it was.
C5_CheckAndAbandonKeepLiveState ==
    [][\A t \in Txns :
          /\ ChecksNow(t) =>
                /\ plane_state' = plane_state
                /\ crtc_state' = crtc_state
                /\ LivePlaneContents' = LivePlaneContents
                /\ LiveCrtcContents' = LiveCrtcContents
                /\ planes' = planes /\ pstates' = pstates
                /\ crtcs' = crtcs /\ cstates' = cstates
                /\ refcnt' = refcnt
          /\ (AbandonsNow(t) /\ ret[t] # 0) =>
                /\ plane_state' = plane_state
                /\ crtc_state' = crtc_state
                /\ LivePlaneContents' = LivePlaneContents
                /\ LiveCrtcContents' = LiveCrtcContents]_vars

\* ---- C6 -----------------------------------------------------------------
\* C6: when check has returned, the check hook was invoked on touched planes
\* only, in increasing identity order, each invocation but the last one
\* succeeded; if check returns 0 every touched plane was checked and passed,
\* otherwise it returns the result of the last invocation, which failed, and
\* exactly the touched planes up to that one were checked.
C6_CheckStopsAtFirstFailure ==
    \A t \in Txns :
        pc[t] = "checked" =>
            LET L == checkLog[t]
                n == Len(L)
                T == {p \in Planes : planes[t][p]}
                ids == {L[i].id : i \in 1 .. n}
            IN  /\ ids \subseteq T
                /\ \A i \in 1 .. (n - 1) :
                       L[i].id < L[i + 1].id /\ L[i].ret = 0
                /\ IF ret[t] = 0
                   THEN ids = T /\ \A i \in 1 .. n : L[i].ret = 0
                   ELSE /\ n > 0
                        /\ L[n].ret = ret[t]
                        /\ ids = {p \in T : p <= L[n].id}

\* planes 0 and 1 are staged, the check of plane 0 failed and plane 1 was
\* not checked
C6_Witness ==
    \E t \in Txns :
        /\ pc[t] = "checked"
        /\ planes[t][0] /\ planes[t][1]
        /\ Len(checkLog[t]) = 1
        /\ checkLog[t][1].id = 0
        /\ ret[t] # 0

\* ---- C7 -----------------------------------------------------------------
\* C7: check, commit and end of a transaction invoke hooks and primitives on
\* objects the transaction staged only, and a step of check, commit or end
\* leaves the live state of every object the transaction did not stage as it
\* was: its live-state pointer, the contents of its live block, the block's
\* allocation, and the framebuffer a crtc scans out.
C7_UnstagedObjectsUntouched ==
    [][\A t \in Txns :
          /\ \A i \in 1 .. Len(checkLog'[t]) : planes'[t][checkLog'[t][i].id]
          /\ \A i \in 1 .. Len(commitLog'[t]) :
                IF commitLog'[t][i].kind = "planes"
                THEN planes'[t][commitLog'[t][i].id]
                ELSE crtcs'[t][commitLog'[t][i].id]
          /\ (ChecksNow(t) \/ CommitsNow(t) \/ EndsNow(t)) =>
                /\ \A p \in Planes : ~planes[t][p] =>
                      /\ plane_state'[p] = plane_state[p]
                      /\ ps'[plane_state[p]] = ps[plane_state[p]]
                      /\ kfreed'[plane_state[p]] = kfreed[plane_state[p]]
                /\ \A c \in Crtcs : ~crtcs[t][c] =>
                      /\ crtc_state'[c] = crtc_state[c]
                      /\ cs'[crtc_state[c]] = cs[crtc_state[c]]
                      /\ kfreed'[crtc_state[c]] = kfreed[crtc_state[c]]
                      /\ crtc_fb'[c] = crtc_fb[c]]_vars

\* a transaction committed plane 0 and a crtc and was ended, plane 1 was
\* never staged and still has its initial state
C7_Witness ==
    /\ pc[1] = "ended"
    /\ plane_state[0] = <<"plane", 1, 0>>
    /\ \E c \in Crtcs : crtc_state[c] = <<"crtc", 1, c>>
    /\ plane_state[1] = <<"plane", 0, 1>>
    /\ <<"plane", 1, 1>> \notin kalloc

\* ---- C8 -----------------------------------------------------------------
\* C8: end() of a transaction that was never committed releases every staged
\* shadow and leaves every object's live state (pointer and contents of the
\* live block) as it was.
C8_AbandonKeepsLiveState ==
    [][\A t \in Txns :
          AbandonsNow(t) =>
              /\ plane_state' = plane_state
              /\ crtc_state' = crtc_state
              /\ LivePlaneContents' = LivePlaneContents
              /\ LiveCrtcContents' = LiveCrtcContents
              /\ EndsNow(t) =>
                    /\ \A p \in Planes : planes[t][p] =>
                          kfreed'[pstates[t][p]] = 1
                    /\ \A c \in Crtcs : crtcs[t][c] =>
                          kfreed'[cstates[t][c]] = 1]_vars

\* ---- C9 -----------------------------------------------------------------
\* number of owners of a state block: the object whose live state it is and
\* the transactions whose shadow slot holds it
Owners(b) ==
    (IF b[1] = "plane" /\ plane_state[b[3]] = b THEN 1 ELSE 0)
    + (IF b[1] = "crtc" /\ crtc_state[b[3]] = b THEN 1 ELSE 0)
    + Cardinality({t \in Txns :
                      \/ b[1] = "plane" /\ pstates[t][b[3]] = b
                      \/ b[1] = "crtc" /\ cstates[t][b[3]] = b})

\* C9: no block is released twice; a block that was allocated and not released
\* has exactly one owner (an object, as its live state, or a transaction that
\* has not ended, in its shadow slot), so that nothing leaks when a
\* transaction ends; a released block has no owner, so that no live state and
\* no slot of another transaction points to released memory.
C9_BlocksReleasedExactlyOnce ==
    \A b \in Blk :
        /\ kfreed[b] <= 1
        /\ b \notin kalloc => (kfreed[b] = 0 /\ Owners(b) = 0)
        /\ b \in kalloc => Owners(b) = 1 - kfreed[b]

\* after a partially failed apply and end: the old live block of plane 0 was
\* released (its swap happened) and the shadow of a crtc was released
\* unapplied
C9_Witness ==
    /\ pc[1] = "ended"
    /\ plane_state[0] = <<"plane", 1, 0>>
    /\ kfreed[<<"plane", 0, 0>>] = 1
    /\ \E c \in Crtcs :
          /\ kfreed[<<"crtc", 1, c>>] = 1
          /\ crtc_state[c] = <<"crtc", 0, c>>

\* ---- C10 ----------------------------------------------------------------
\* C10: a page-flip commit that fails, whatever the reason, leaves the crtc's
\* live state and scanned-out framebuffer as they were and changes the
\* reference counts only by dropping the reference held for the new
\* framebuffer of the shadow.
C10_FailedFlipDropsNewReference ==
    [][\A t \in Txns :
          (/\ CommitsNow(t)
           /\ Committed(t).kind = "crtcs"
           /\ Committed(t).sub \in {"flip", "flip_unbound", "flip_nofunc"}
           /\ Committed(t).ret # 0) =>
              LET c == Committed(t).id
              IN  /\ crtc_state'[c] = crtc_state[c]
                  /\ cs'[crtc_state[c]] = cs[crtc_state[c]]
                  /\ crtc_fb'[c] = crtc_fb[c]
                  /\ refcnt' = [refcnt EXCEPT ![cs[cstates[t][c]].fb] = @ - 1]
      ]_vars

\* ---- C11 ----------------------------------------------------------------
\* the step is transaction t's commit of a crtc whose shadow asks for a page
\* flip: no set_config, a framebuffer, and not the one of the live state
FlipCommitNow(t) ==
    /\ CommitsNow(t)
    /\ Committed(t).kind = "crtcs"
    /\ LET c  == Committed(t).id
           st == cs[cstates[t][c]]
       IN  /\ ~st.set_config
           /\ st.fb # NoFb
           /\ st.fb # cs[crtc_state[c]].fb

\* C11: a page-flip commit of a crtc that scans out nothing returns -EBUSY
\* without calling the flip primitive; otherwise, without a flip primitive,
\* it returns -EINVAL; otherwise it calls the flip primitive once, with the
\* shadow's framebuffer, the shadow's event and the transaction's flags, and
\* the shadow is swapped in exactly when the primitive returns 0.
C11_PageFlipCases ==
    [][\A t \in Txns :
          FlipCommitNow(t) =>
              LET c     == Committed(t).id
                  st    == cs[cstates[t][c]]
                  swapd == /\ crtc_state'[c] = cstates[t][c]
                           /\ cstates'[t][c] = crtc_state[c]
                  same  == /\ crtc_state' = crtc_state
                           /\ cstates' = cstates
              IN  IF crtc_fb[c] = NoFb
                  THEN /\ Committed(t).ret = -EBUSY
                       /\ Committed(t).sub = "flip_unbound"
                       /\ same /\ crtc_fb' = crtc_fb
                  ELSE IF ~page_flip
                  THEN /\ Committed(t).ret = -EINVAL
                       /\ Committed(t).sub = "flip_nofunc"
                       /\ same /\ crtc_fb' = crtc_fb
                  ELSE /\ Committed(t).sub = "flip"
                       /\ Committed(t).args = <<st.fb, st.event, flags[t]>>
                       /\ IF Committed(t).ret = 0 THEN swapd ELSE same]_vars

\* a flip with an event attached was committed successfully under non-zero
\* flags, and the crtc now scans out the new framebuffer
C11_Witness ==
    \E t \in Txns :
        /\ Len(commitLog[t]) >= 1
        /\ LET e == commitLog[t][Len(commitLog[t])]
           IN  /\ e.kind = "crtcs" /\ e.sub = "flip" /\ e.ret = 0
               /\ e.args = <<2, TheEvent, 1>>
               /\ crtc_state[e.id] = <<"crtc", t, e.id>>
               /\ crtc_fb[e.id] = 2

\* ---- C12 ----------------------------------------------------------------
\* the step is transaction t's successful update commit of a plane, the only
\* object the transaction staged
OnlyUpdateCommitNow(t) ==
    /\ CommitsNow(t)
    /\ Committed(t).kind = "planes"
    /\ Committed(t).sub = "update"
    /\ Committed(t).ret = 0
    /\ \A q \in Planes : planes[t][q] => q = Committed(t).id
    /\ \A c \in Crtcs : ~crtcs[t][c]

\* C12: after a successful plane update commit the plane's live state is the
\* staged shadow, the count of the framebuffer that was attached before has
\* gone down by one, and the count of the newly attached framebuffer is the
\* number of live states that bind it (the live state holds its one
\* reference), whatever framebuffer was attached before, the same one
\* included.
C12_UpdateHoldsOneReference ==
    [][\A t \in Txns :
          OnlyUpdateCommitNow(t) =>
              LET p      == Committed(t).id
                  new_fb == ps[pstates[t][p]].fb
                  old_fb == ps[plane_state[p]].fb
              IN  /\ plane_state'[p] = pstates[t][p]
                  /\ old_fb # NoFb =>
                        refcnt'[old_fb] = refcnt[old_fb] - 1
                  /\ \A f \in Fbs : f = new_fb =>
                        refcnt'[f] = LiveBindings(f)']_vars

\* ---- C13 ----------------------------------------------------------------
\* C13: in the disable case of a crtc commit (no set_config, the shadow has no
\* framebuffer, the live state has one) the shadow is swapped in and the
\* framebuffer of the old live state loses one reference exactly when the
\* mode-set primitive returns 0; when it fails the live state is the same
\* block, still binds the old framebuffer, and no reference count changes.
C13_DisableReleasesOnSuccessOnly ==
    [][\A t \in Txns :
          (/\ CommitsNow(t)
           /\ Committed(t).kind = "crtcs"
           /\ Committed(t).sub = "disable") =>
              LET c      == Committed(t).id
                  old_fb == cs[crtc_state[c]].fb
              IN  IF Committed(t).ret = 0
                  THEN /\ crtc_state'[c] = cstates[t][c]
                       /\ cstates'[t][c] = crtc_state[c]
                       /\ refcnt' = [refcnt EXCEPT ![old_fb] = @ - 1]
                  ELSE /\ crtc_state'[c] = crtc_state[c]
                       /\ cs'[crtc_state[c]].fb = old_fb
                       /\ refcnt' = refcnt]_vars

\* ---- C14 ----------------------------------------------------------------
\* C14: a call of begin either fails for lack of memory, and then nothing
\* faults and no state other than the caller's position changes, or it opens
\* a transaction whose flags are the argument and whose markers and slots are
\* all empty.
C14_BeginChecksAllocation ==
    [][\A t \in Txns :
          (pc[t] = "idle" /\ pc'[t] # "idle") =>
              /\ ~oops'
              /\ pc'[t] \in {"open", "nomem"}
              /\ pc'[t] = "open" =>
                    /\ flags'[t] \in Flags
                    /\ \A p \in Planes :
                          ~planes'[t][p] /\ pstates'[t][p] = NullBlk
                    /\ \A c \in Crtcs :
                          ~crtcs'[t][c] /\ cstates'[t][c] = NullBlk
              /\ pc'[t] = "nomem" =>
                    UNCHANGED <<flags, planes, pstates, crtcs, cstates,
                                kalloc, kfreed>>]_vars

\* ---- C15 ----------------------------------------------------------------
\* the step is a staging call of transaction t
StagesNow(t) == nset'[t] = nset[t] + 1

\* the fields of F on which the records r1 and r2 differ
DiffFields(r1, r2, F) == {f \in F : r1[f] # r2[f]}

\* in every state a marker is set exactly when its slot holds a block
MarkerIffSlot ==
    \A t \in Txns :
        /\ \A p \in Planes : planes[t][p] <=> pstates[t][p] # NullBlk
        /\ \A c \in Crtcs : crtcs[t][c] <=> cstates[t][c] # NullBlk

\* C15: a staging call allocates at most one block; for an object whose slot
\* is empty and gets filled, the block is newly allocated, its back-reference
\* is the transaction and its other fields are those of the object's live
\* state but for the one field the call sets; for an object whose slot is
\* filled, the slot keeps its block, nothing is allocated for it, and the
\* block changes in at most the one field the call sets, so fields set
\* earlier are kept.  Marker and slot are always set together.
C15_StageIsGetOrCreate ==
    [][/\ MarkerIffSlot /\ MarkerIffSlot'
       /\ \A t \in Txns :
          StagesNow(t) =>
              /\ Cardinality(kalloc' \ kalloc) <= 1
              /\ \A p \in Planes :
                    LET old == pstates[t][p]
                        new == pstates'[t][p]
                    IN  IF old # NullBlk
                        THEN /\ new = old
                             /\ <<"plane", t, p>> \notin (kalloc' \ kalloc)
                             /\ ps'[old].state = ps[old].state
                             /\ Cardinality(DiffFields(ps'[old], ps[old],
                                                {"fb", "crtc"})) <= 1
                        ELSE new # NullBlk =>
                             /\ new \notin kalloc /\ new \in kalloc'
                             /\ ps'[new].state = t
                             /\ Cardinality(DiffFields(ps'[new],
                                                ps[plane_state[p]],
                                                {"fb", "crtc"})) <= 1
              /\ \A c \in Crtcs :
                    LET old == cstates[t][c]
                        new == cstates'[t][c]
                    IN  IF old # NullBlk
                        THEN /\ new = old
                             /\ <<"crtc", t, c>> \notin (kalloc' \ kalloc)
                             /\ cs'[old].state = cs[old].state
                             /\ Cardinality(DiffFields(cs'[old], cs[old],
                                     {"fb", "set_config", "event"})) <= 1
                        ELSE new # NullBlk =>
                             /\ new \notin kalloc /\ new \in kalloc'
                             /\ cs'[new].state = t
                             /\ Cardinality(DiffFields(cs'[new],
                                     cs[crtc_state[c]],
                                     {"fb", "set_config", "event"})) <= 1
      ]_vars

\* plane 0 was staged twice in the open transaction: its one shadow carries
\* both the framebuffer and the crtc that were set, the live state neither
C15_Witness ==
    /\ pc[1] = "open"
    /\ pstates[1][0] = <<"plane", 1, 0>>
    /\ ps[<<"plane", 1, 0>>] = [fb |-> 2, crtc |-> 1, state |-> 1]
    /\ ps[plane_state[0]] = [fb |-> 1, crtc |-> 0, state |-> NoTxn]

\* ---- C16 ----------------------------------------------------------------
\* C16: in every state of an open transaction, set_event on an object that is
\* not a crtc returns -EINVAL and changes nothing; on a crtc it returns 0,
\* leaves the crtc staged (in the block it was staged in, if it was), records
\* the event in the crtc's shadow and nothing else in it, and changes no
\* live-state pointer and no live state block.
C16_SetEventCrtcOnly ==
    \A t \in Txns :
        pc[t] = "open" =>
            \A obj \in ({"plane"} \X Planes) \cup ({"crtc"} \X Crtcs) :
                LET res == drm_atomic_helper_set_event(Cur, t, obj, TheEvent)
                    c   == obj[2]
                    sh  == res.m.cstates[t][c]
                    was == IF cstates[t][c] # NullBlk THEN cs[cstates[t][c]]
                           ELSE [cs[crtc_state[c]] EXCEPT !.state = t]
                IN  IF obj[1] # "crtc"
                    THEN res.ret = -EINVAL /\ res.m = Cur
                    ELSE /\ res.ret = 0
                         /\ res.m.crtcs[t][c]
                         /\ sh # NullBlk
                         /\ cstates[t][c] # NullBlk => sh = cstates[t][c]
                         /\ res.m.cs[sh] = [was EXCEPT !.event = TheEvent]
                         /\ res.m.crtc_state = crtc_state
                         /\ res.m.plane_state = plane_state
                         /\ \A k \in Crtcs :
                               res.m.cs[crtc_state[k]] = cs[crtc_state[k]]
                         /\ \A p \in Planes :
                               res.m.ps[plane_state[p]] = ps[plane_state[p]]
                         /\ res.m.planes = planes
                         /\ res.m.pstates = pstates

\* set_event was called on a crtc that was not staged: the crtc is staged,
\* its shadow carries the event and the live state does not
C16_Witness ==
    \E c \in Crtcs :
        /\ pc[1] = "open"
        /\ nset[1] = 1
        /\ cstates[1][c] = <<"crtc", 1, c>>
        /\ cs[<<"crtc", 1, c>>] =
              [cs[crtc_state[c]] EXCEPT !.state = 1, !.event = TheEvent]
        /\ cs[crtc_state[c]].event = NoEvent

\* ---- C18 ----------------------------------------------------------------
\* C18: the commit of a staged crtc whose shadow asks for nothing (no
\* set_config, the framebuffer of the live state) calls no primitive, swaps
\* nothing, changes no state block, no scanned-out framebuffer and no
\* reference count, and returns -EINVAL; the commit call returns right after
\* it, whatever crtcs with a higher identity are staged.
C18_NoopCrtcCommitFails ==
    [][\A t \in Txns :
          (/\ CommitsNow(t)
           /\ Committed(t).kind = "crtcs"
           /\ ~cs[cstates[t][Committed(t).id]].set_config
           /\ cs[cstates[t][Committed(t).id]].fb
                 = cs[crtc_state[Committed(t).id]].fb) =>
              /\ Committed(t).sub = "noop"
              /\ Committed(t).args = <<>>
              /\ Committed(t).ret = -EINVAL
              /\ UNCHANGED <<plane_state, crtc_state, ps, cs, crtc_fb,
                             refcnt, pstates, cstates, kfreed>>
              /\ pc'[t] = "applied"
              /\ ret'[t] = -EINVAL]_vars

\* crtcs 0 and 1 were staged with an event only; the commit of crtc 0 was a
\* no-op that failed, and crtc 1 was not committed
C18_Witness ==
    /\ pc[1] = "applied"
    /\ crtcs[1][0] /\ crtcs[1][1]
    /\ Len(commitLog[1]) = 1
    /\ commitLog[1][1].kind = "crtcs"
    /\ commitLog[1][1].id = 0
    /\ commitLog[1][1].sub = "noop"
    /\ cs[cstates[1][0]].event = TheEvent
    /\ crtc_state[1] = <<"crtc", 0, 1>>

\* ---- C17 ----------------------------------------------------------------
\* transaction t is inside a per-object commit: it has taken the lock and
\* not yet given it up
InCommit(t) == step[t] \in {"locked", "called", "unlock"}

\* the object the commit loop of t commits next
NextCommit(t) == IF pc[t] = "checked" THEN PlaneLoop(t, 0) ELSE idx[t]

\* C17: two transactions are never inside the per-object commit of the same
\* plane or the same crtc at once, whatever paths the two commits take; and a
\* transaction inside the commit of a crtc owns that crtc's mutex, one inside
\* the commit of a plane owns the mode_config mutex.
C17_CommitsOfOneObjectExclude ==
    /\ \A t1, t2 \in Txns :
          (t1 # t2 /\ InCommit(t1) /\ InCommit(t2)) => idx[t1] # idx[t2]
    /\ \A t \in Txns :
          InCommit(t) =>
              IF idx[t][1] = "crtcs"
              THEN mutex[<<"crtc", idx[t][2]>>] = t
              ELSE mutex[<<"mode_config", 0>>] = t

\* one transaction is inside the flip or disable commit of a crtc while
\* another one, whose next commit is the set_config of the same crtc, waits
C17_Witness ==
    \E t1, t2 \in Txns :
        /\ t1 # t2
        /\ step[t1] = "locked"
        /\ idx[t1][1] = "crtcs"
        /\ ~cs[cstates[t1][idx[t1][2]]].set_config
        /\ pc[t2] \in {"checked", "commit"}
        /\ ret[t2] = 0
        /\ step[t2] = "none"
        /\ NextCommit(t2) = idx[t1]
        /\ cs[cstates[t2][idx[t1][2]]].set_config

\* ---- C19 ----------------------------------------------------------------
\* the mutexes transaction t owns
Held(t) == {l \in Locks : mutex[l] = t}

\* C19: a transaction that is not inside a per-object commit owns no mutex
\* (so none is owned when the commit call has returned), and one that is
\* inside owns every mutex for a plane commit or a set_config and just the
\* crtc's mutex for the other crtc commits.
C19_LocksReleasedOnReturn ==
    \A t \in Txns :
        /\ ~InCommit(t) => Held(t) = {}
        /\ step[t] \in {"locked", "called"} =>
              Held(t) = IF \/ idx[t][1] = "planes"
                           \/ cs[cstates[t][idx[t][2]]].set_config
                        THEN Locks
                        ELSE {<<"crtc", idx[t][2]>>}

\* a commit call returned after the flip of a crtc that scans out nothing
\* failed, and another transaction is now inside the commit of that crtc
C19_Witness ==
    \E t1, t2 \in Txns :
        /\ t1 # t2
        /\ pc[t1] = "applied"
        /\ Len(commitLog[t1]) = 1
        /\ commitLog[t1][1].sub = "flip_unbound"
        /\ step[t2] = "locked"
        /\ idx[t2] = <<"crtcs", commitLog[t1][1].id>>

\* ---- C20 ----------------------------------------------------------------
\* C20: with concurrent transactions no block is released twice and no block
\* that is an object's live state has been released; and when every
\* transaction has run its commit and the end of one of them stores through
\* the live-state pointer it loaded, the block it points to has not been
\* released.
C20_NoUseAfterRelease ==
    [][/\ \A b \in Blk : kfreed'[b] <= 1
       /\ \A p \in Planes : kfreed'[plane_state'[p]] = 0
       /\ \A c \in Crtcs : kfreed'[crtc_state'[c]] = 0
       /\ \A t \in Txns :
             (EndWritesNow(t) /\ \A u \in Txns : commitLog[u] # <<>>) =>
                 kfreed[endptr[t]] = 0]_vars

====
